---- MODULE Spec2Model ----
(***************************************************************************)
(* Postman-to-Karate converter: the /convert handler of src/app.py, the    *)
(* model client and response parser of src/gemini_service.py, and the      *)
(* archive builder.                                                        *)
(*                                                                         *)
(* Texts (Python str / bytes) are sequences of atoms.  An atom is either   *)
(* one character the code or a library inspects ('{', '}', '[', ']', ':',  *)
(* ',', '"', '/', '-', ' ') or an opaque run of other characters.          *)
(* Decoded JSON values (and the Python dicts built by the code) are        *)
(* records [t, s, kv]: t the type tag, s the text of a string or number,   *)
(* kv the ordered <<key, value>> pairs of a dict (insertion order, unique  *)
(* keys) or the <<<<>>, element>> pairs of a list.                         *)
(***************************************************************************)
EXTENDS Integers, Sequences, FiniteSets, TLC

QUOTE == "\""
ESCQUOTE == "\\\""
BADBYTE == "<0xFF>"
WS == " "

-----------------------------------------------------------------------------
(* Decoded values                                                          *)

JNull == [t |-> "null", s |-> <<>>, kv |-> <<>>]
JTrue == [t |-> "true", s |-> <<>>, kv |-> <<>>]
JFalse == [t |-> "false", s |-> <<>>, kv |-> <<>>]
JNum(digits) == [t |-> "num", s |-> <<digits>>, kv |-> <<>>]
JStr(text) == [t |-> "str", s |-> text, kv |-> <<>>]
JList(items) == [t |-> "list", s |-> <<>>, kv |-> [i \in 1..Len(items) |-> <<<<>>, items[i]>>]]
JDict(pairs) == [t |-> "dict", s |-> <<>>, kv |-> pairs]

IsDict(v) == v.t = "dict"
IsList(v) == v.t = "list"
IsStr(v) == v.t = "str"

\* Python truth value: None, False, 0, '', [] and {} are false.
Truthy(v) ==
    CASE v.t = "null" -> FALSE
      [] v.t = "false" -> FALSE
      [] v.t = "true" -> TRUE
      [] v.t = "num" -> v.s # <<"0">>
      [] v.t = "str" -> v.s # <<>>
      [] OTHER -> v.kv # <<>>

Keys(d) == {d.kv[i][1] : i \in 1..Len(d.kv)}
\* key in d, for a dict d
HasKey(d, k) == k \in Keys(d)
\* d.get(k, default), for a dict d
Get(d, k, default) ==
    IF HasKey(d, k)
    THEN d.kv[CHOOSE i \in 1..Len(d.kv) : d.kv[i][1] = k][2]
    ELSE default
\* d[k] = v on an insertion-ordered dict: a repeated key keeps its place
Put(pairs, k, v) ==
    IF \E i \in 1..Len(pairs) : pairs[i][1] = k
    THEN [i \in 1..Len(pairs) |-> IF pairs[i][1] = k THEN <<k, v>> ELSE pairs[i]]
    ELSE Append(pairs, <<k, v>>)
Elems(l) == [i \in 1..Len(l.kv) |-> l.kv[i][2]]

\* text.find(ch) and text.rfind(ch): 0-based index, -1 when absent
find(text, ch) ==
    IF \E i \in 1..Len(text) : text[i] = ch
    THEN (CHOOSE i \in 1..Len(text) : text[i] = ch /\ \A j \in 1..(i - 1) : text[j] # ch) - 1
    ELSE -1
rfind(text, ch) ==
    IF \E i \in 1..Len(text) : text[i] = ch
    THEN (CHOOSE i \in 1..Len(text) : text[i] = ch /\ \A j \in (i + 1)..Len(text) : text[j] # ch) - 1
    ELSE -1
\* text[start:end] for 0 <= start and 0 <= end
Slice(text, start, end) ==
    SubSeq(text, start + 1, IF end > Len(text) THEN Len(text) ELSE end)
\* needle in text (substring)
IsSubstring(needle, text) ==
    \E i \in 0..(Len(text) - Len(needle)) : SubSeq(text, i + 1, i + Len(needle)) = needle

RECURSIVE ReplaceAtom(_, _)
\* text.replace(ch, '')
ReplaceAtom(text, ch) ==
    IF text = <<>> THEN <<>>
    ELSE (IF Head(text) = ch THEN <<>> ELSE <<Head(text)>>) \o ReplaceAtom(Tail(text), ch)

-----------------------------------------------------------------------------
(* json.loads and json.dumps on atoms                                      *)

NumberAtoms == {"0", "1", "5"}
ParseFail == [ok |-> FALSE, val |-> JNull, pos |-> 0]

RECURSIVE SkipWs(_, _)
SkipWs(a, i) == IF i <= Len(a) /\ a[i] = WS THEN SkipWs(a, i + 1) ELSE i

\* the index of the quote closing a string whose content starts at i, 0 if none
ClosingQuote(a, i) ==
    IF \E q \in i..Len(a) : a[q] = QUOTE
    THEN CHOOSE q \in i..Len(a) : a[q] = QUOTE /\ \A j \in i..(q - 1) : a[j] # QUOTE
    ELSE 0
Unescape(text) == [i \in 1..Len(text) |-> IF text[i] = ESCQUOTE THEN QUOTE ELSE text[i]]
Escape(text) == [i \in 1..Len(text) |-> IF text[i] = QUOTE THEN ESCQUOTE ELSE text[i]]

\* a string literal starting at the quote a[i]
ParseString(a, i) ==
    LET q == ClosingQuote(a, i + 1) IN
    IF q = 0 THEN ParseFail
    ELSE [ok |-> TRUE, val |-> JStr(Unescape(SubSeq(a, i + 1, q - 1))), pos |-> q + 1]

RECURSIVE ParseValue(_, _), ParseMembers(_, _, _, _), ParseElems(_, _, _, _)
ParseValue(a, i) ==
    LET j == SkipWs(a, i) IN
    IF j > Len(a) THEN ParseFail
    ELSE CASE a[j] = QUOTE -> ParseString(a, j)
           [] a[j] = "{" -> ParseMembers(a, j + 1, <<>>, TRUE)
           [] a[j] = "[" -> ParseElems(a, j + 1, <<>>, TRUE)
           [] a[j] \in NumberAtoms -> [ok |-> TRUE, val |-> JNum(a[j]), pos |-> j + 1]
           [] a[j] = "null" -> [ok |-> TRUE, val |-> JNull, pos |-> j + 1]
           [] a[j] = "true" -> [ok |-> TRUE, val |-> JTrue, pos |-> j + 1]
           [] a[j] = "false" -> [ok |-> TRUE, val |-> JFalse, pos |-> j + 1]
           [] OTHER -> ParseFail
\* the members of an object after '{' (first) or after ','
ParseMembers(a, i, acc, first) ==
    LET j == SkipWs(a, i) IN
    IF j > Len(a) THEN ParseFail
    ELSE IF a[j] = "}" /\ first THEN [ok |-> TRUE, val |-> JDict(acc), pos |-> j + 1]
    ELSE IF a[j] # QUOTE THEN ParseFail
    ELSE LET k == ParseString(a, j)
             c == SkipWs(a, k.pos)
         IN  IF ~k.ok \/ c > Len(a) THEN ParseFail
             ELSE IF a[c] # ":" THEN ParseFail
             ELSE LET v == ParseValue(a, c + 1)
                      m == SkipWs(a, v.pos)
                  IN  IF ~v.ok \/ m > Len(a) THEN ParseFail
                      ELSE IF a[m] = "," THEN ParseMembers(a, m + 1, Put(acc, k.val.s, v.val), FALSE)
                      ELSE IF a[m] = "}" THEN [ok |-> TRUE, val |-> JDict(Put(acc, k.val.s, v.val)), pos |-> m + 1]
                      ELSE ParseFail
\* the elements of an array after '[' (first) or after ','
ParseElems(a, i, acc, first) ==
    LET j == SkipWs(a, i) IN
    IF j > Len(a) THEN ParseFail
    ELSE IF a[j] = "]" /\ first THEN [ok |-> TRUE, val |-> JList(acc), pos |-> j + 1]
    ELSE LET v == ParseValue(a, j)
             m == SkipWs(a, v.pos)
         IN  IF ~v.ok \/ m > Len(a) THEN ParseFail
             ELSE IF a[m] = "," THEN ParseElems(a, m + 1, Append(acc, v.val), FALSE)
             ELSE IF a[m] = "]" THEN [ok |-> TRUE, val |-> JList(Append(acc, v.val)), pos |-> m + 1]
             ELSE ParseFail

\* json.loads(str): the value, or exc = "JSONDecodeError" (also on trailing data)
JsonLoads(a) ==
    LET r == ParseValue(a, 1) IN
    IF r.ok /\ SkipWs(a, r.pos) > Len(a)
    THEN [exc |-> "", val |-> r.val]
    ELSE [exc |-> "JSONDecodeError", val |-> JNull]
\* json.loads(bytes): the bytes are decoded as UTF-8 first
JsonLoadsBytes(b) ==
    IF \E i \in 1..Len(b) : b[i] = BADBYTE
    THEN [exc |-> "UnicodeDecodeError", val |-> JNull]
    ELSE JsonLoads(b)

RECURSIVE Dumps(_), DumpsPairs(_, _)
\* json.dumps, compact separators
Dumps(v) ==
    CASE v.t = "null" -> <<"null">>
      [] v.t = "true" -> <<"true">>
      [] v.t = "false" -> <<"false">>
      [] v.t = "num" -> v.s
      [] v.t = "str" -> <<QUOTE>> \o Escape(v.s) \o <<QUOTE>>
      [] v.t = "list" -> <<"[">> \o DumpsPairs(v.kv, FALSE) \o <<"]">>
      [] OTHER -> <<"{">> \o DumpsPairs(v.kv, TRUE) \o <<"}">>
DumpsPairs(kv, keyed) ==
    IF kv = <<>> THEN <<>>
    ELSE (IF keyed THEN <<QUOTE>> \o Escape(kv[1][1]) \o <<QUOTE, ":">> ELSE <<>>)
         \o Dumps(kv[1][2])
         \o (IF Len(kv) > 1 THEN <<",">> \o DumpsPairs(Tail(kv), keyed) ELSE <<>>)

-----------------------------------------------------------------------------
(* Python operations on decoded values; a result is [exc, val], exc = ""   *)
(* when nothing is raised                                                  *)

Return(v) == [exc |-> "", val |-> v]
Raise(e) == [exc |-> e, val |-> JNull]

\* key in v
PyContains(key, v) ==
    CASE v.t = "dict" -> Return(IF HasKey(v, key) THEN JTrue ELSE JFalse)
      [] v.t = "list" -> Return(IF \E i \in 1..Len(v.kv) : v.kv[i][2] = JStr(key) THEN JTrue ELSE JFalse)
      [] v.t = "str" -> Return(IF IsSubstring(key, v.s) THEN JTrue ELSE JFalse)
      [] OTHER -> Raise("TypeError")
\* v[key], key a str
PyGetKey(v, key) ==
    CASE v.t = "dict" -> IF HasKey(v, key) THEN Return(Get(v, key, JNull)) ELSE Raise("KeyError")
      [] OTHER -> Raise("TypeError")
\* len(v) > 0
PyNonEmpty(v) ==
    CASE v.t \in {"dict", "list"} -> Return(IF v.kv # <<>> THEN JTrue ELSE JFalse)
      [] v.t = "str" -> Return(IF v.s # <<>> THEN JTrue ELSE JFalse)
      [] OTHER -> Raise("TypeError")
\* v[0]
PyFirst(v) ==
    CASE v.t = "list" -> IF v.kv # <<>> THEN Return(v.kv[1][2]) ELSE Raise("IndexError")
      [] v.t = "str" -> IF v.s # <<>> THEN Return(JStr(<<v.s[1]>>)) ELSE Raise("IndexError")
      [] v.t = "dict" -> Raise("KeyError")
      [] OTHER -> Raise("TypeError")
\* the values a for loop over v visits
PyIter(v) ==
    CASE v.t = "list" -> Return(v)
      [] v.t = "dict" -> Return(JList([i \in 1..Len(v.kv) |-> JStr(v.kv[i][1])]))
      [] v.t = "str" -> Return(JList([i \in 1..Len(v.s) |-> JStr(<<v.s[i]>>)]))
      [] OTHER -> Raise("TypeError")

-----------------------------------------------------------------------------
(* src/app.py: validation and the built-in generator                       *)

K_info == <<"info">>
K_item == <<"item">>
K_name == <<"name">>
K_request == <<"request">>
DefaultName == <<"postman", "-", "collection">>
CONFIG_JS == <<"karate", "-", "config.js">>
TESTRUNNER_JAVA == <<"TestRunner.java">>
SAMPLE_FEATURE == <<"sample.feature">>
\* the literals of the built-in generators
ConfigBody == <<"function fn() {\n    var env = karate.env || 'dev';\n    var config = {\n        baseUrl: 'http://localhost:8080',\n        timeout: 10000\n    };\n    \n    if (env === 'dev') {\n        config.baseUrl = 'http://localhost:8080';\n    } else if (env === 'staging') {\n        config.baseUrl = 'https://staging-api.example.com';\n    } else if (env === 'prod') {\n        config.baseUrl = 'https://api.example.com';\n    }\n    \n    return config;\n}">>
RunnerHead == "import com.intuit.karate.junit5.Karate;\n\npublic class "
RunnerTail == " {\n    \n    @Karate.Test\n    Karate testAll() {\n        return Karate.run().relativeTo(getClass());\n    }\n}"
FeatureBody == <<"Feature: Sample API Test\n\nBackground:\n    * url baseUrl\n\nScenario: Sample GET request\n    Given path '/api/sample'\n    When method GET\n    Then status 200\n    And match response contains { \"message\": \"success\" }">>

\* the validator with the list check alone
is_valid_list_only(data) ==
    IsDict(data) /\ HasKey(data, K_info) /\ IsList(Get(data, K_item, JNull))
is_valid_postman_collection(data) ==
    IF ~IsDict(data) THEN FALSE
    ELSE IF HasKey(data, K_info) /\ HasKey(data, K_item) THEN TRUE
    ELSE IF HasKey(data, K_info) /\ IsList(Get(data, K_item, JNull)) THEN TRUE
    ELSE FALSE

generate_karate_config == ConfigBody
\* collection_name is a str here
generate_test_runner(collection_name) ==
    <<RunnerHead>> \o ReplaceAtom(ReplaceAtom(collection_name, "-"), WS) \o <<"TestRunner", RunnerTail>>
generate_sample_feature == FeatureBody

process_postman_collection(postman_data) ==
    LET collection_info == Get(postman_data, K_info, JDict(<<>>)) IN
    IF ~IsDict(collection_info) THEN Raise("AttributeError")
    ELSE LET collection_name == Get(collection_info, K_name, JStr(DefaultName)) IN
         IF ~IsStr(collection_name) THEN Raise("AttributeError")
         ELSE Return(JDict(<<
                <<CONFIG_JS, JStr(generate_karate_config)>>,
                <<TESTRUNNER_JAVA, JStr(generate_test_runner(collection_name.s))>>,
                <<<<"features", "/">>, JDict(<< <<SAMPLE_FEATURE, JStr(generate_sample_feature)>> >>)>> >>))

-----------------------------------------------------------------------------
(* src/app.py: the archive builder                                         *)

\* os.path.join(a, b) on POSIX
PathJoin(a, b) ==
    IF b # <<>> /\ b[1] = "/" THEN b
    ELSE IF a = <<>> \/ a[Len(a)] = "/" THEN a \o b
    ELSE a \o <<"/">> \o b

\* zipf.writestr(name, content) onto the members written so far
writestr(zip, name, content) ==
    IF zip.exc # "" THEN zip
    ELSE IF ~IsStr(content) THEN [zip EXCEPT !.exc = "TypeError"]
    ELSE [zip EXCEPT !.val = Append(@, <<name, content.s>>)]

RECURSIVE WriteSub(_, _, _), WriteTop(_, _)
\* the inner loop over content.items()
WriteSub(zip, file_path, kv) ==
    IF kv = <<>> \/ zip.exc # "" THEN zip
    ELSE WriteSub(writestr(zip, PathJoin(file_path, kv[1][1]), kv[1][2]), file_path, Tail(kv))
\* the outer loop over karate_files.items()
WriteTop(zip, kv) ==
    IF kv = <<>> \/ zip.exc # "" THEN zip
    ELSE WriteTop(IF IsDict(kv[1][2]) THEN WriteSub(zip, kv[1][1], kv[1][2].kv)
                  ELSE writestr(zip, kv[1][1], kv[1][2]),
                  Tail(kv))
\* the members of the archive, in the order written, and what was raised
create_zip_file(karate_files) == WriteTop([exc |-> "", val |-> <<>>], karate_files.kv)

-----------------------------------------------------------------------------
(* src/gemini_service.py                                                   *)

FEATURES == <<"features">>
PromptHead == "<You are an expert in Apache Karate ... Postman Collection Information:>"
PromptTail == "<Please generate a complete Karate test suite ...>"

RequestInfo(item, request) ==
    JDict(<< <<K_name, Get(item, K_name, JStr(<<"Unknown">>))>>,
             <<<<"method">>, Get(request, <<"method">>, JStr(<<"GET">>))>>,
             <<<<"url">>, Get(request, <<"url">>, JDict(<<>>))>>,
             <<<<"headers">>, Get(request, <<"header">>, JList(<<>>))>>,
             <<<<"body">>, Get(request, <<"body">>, JDict(<<>>))>>,
             <<<<"description">>, Get(item, <<"description">>, JStr(<<>>))>> >>)

RECURSIVE SummariseItems(_, _)
\* the loop over items: the request summaries, or what the loop raises
SummariseItems(items, acc) ==
    IF items = <<>> THEN Return(JList(acc))
    ELSE LET item == Head(items)
             has == PyContains(K_request, item)
         IN  IF has.exc # "" THEN Raise(has.exc)
             ELSE IF has.val = JFalse THEN SummariseItems(Tail(items), acc)
             ELSE IF ~IsDict(item) THEN Raise("AttributeError")
             ELSE IF ~IsDict(Get(item, K_request, JNull)) THEN Raise("AttributeError")
             ELSE SummariseItems(Tail(items),
                                 Append(acc, RequestInfo(item, Get(item, K_request, JNull))))

\* postman_collection is a dict here (it passed validation)
_create_generation_prompt(postman_collection) ==
    LET collection_info == Get(postman_collection, K_info, JDict(<<>>))
        items == Get(postman_collection, K_item, JList(<<>>))
    IN  IF ~IsDict(collection_info) THEN Raise("AttributeError")
        ELSE LET it == PyIter(items) IN
             IF it.exc # "" THEN Raise(it.exc)
             ELSE LET requests == SummariseItems(Elems(it.val), <<>>) IN
                  IF requests.exc # "" THEN Raise(requests.exc)
                  ELSE Return(JStr(<<PromptHead>>
                         \o Dumps(JDict(<< <<K_name, Get(collection_info, K_name, JStr(<<"Unknown">>))>>,
                                           <<<<"description">>, Get(collection_info, <<"description">>, JStr(<<>>))>>,
                                           <<<<"requests">>, requests.val>> >>))
                         \o <<PromptTail>>))

InvalidStructure == Raise("Exception")
\* parts[0]['text'] of candidate['content']['parts'], or what is raised
TextOfParts(parts) ==
    LET n == PyNonEmpty(parts) IN
    IF n.exc # "" THEN Raise(n.exc)
    ELSE IF n.val = JFalse THEN InvalidStructure
    ELSE LET first == PyFirst(parts) IN
         IF first.exc # "" THEN Raise(first.exc)
         ELSE LET c == PyContains(<<"text">>, first.val) IN
              IF c.exc # "" THEN Raise(c.exc)
              ELSE IF c.val = JFalse THEN InvalidStructure
              ELSE PyGetKey(first.val, <<"text">>)
TextOfCandidate(candidate) ==
    LET c == PyContains(<<"content">>, candidate) IN
    IF c.exc # "" THEN Raise(c.exc)
    ELSE IF c.val = JFalse THEN InvalidStructure
    ELSE LET content == PyGetKey(candidate, <<"content">>) IN
         IF content.exc # "" THEN Raise(content.exc)
         ELSE LET p == PyContains(<<"parts">>, content.val) IN
              IF p.exc # "" THEN Raise(p.exc)
              ELSE IF p.val = JFalse THEN InvalidStructure
              ELSE LET parts == PyGetKey(content.val, <<"parts">>) IN
                   IF parts.exc # "" THEN Raise(parts.exc) ELSE TextOfParts(parts.val)
TextOfEnvelope(response_data) ==
    LET c == PyContains(<<"candidates">>, response_data) IN
    IF c.exc # "" THEN Raise(c.exc)
    ELSE IF c.val = JFalse THEN InvalidStructure
    ELSE LET cands == PyGetKey(response_data, <<"candidates">>) IN
         IF cands.exc # "" THEN Raise(cands.exc)
         ELSE LET n == PyNonEmpty(cands.val) IN
              IF n.exc # "" THEN Raise(n.exc)
              ELSE IF n.val = JFalse THEN InvalidStructure
              ELSE LET candidate == PyFirst(cands.val) IN
                   IF candidate.exc # "" THEN Raise(candidate.exc)
                   ELSE TextOfCandidate(candidate.val)

\* What _call_gemini_api returns or raises on the outcome of requests.post.
\* response = [kind, status_code, body]; decodeError is what response.json()
\* raises on a body that is not JSON.
_call_gemini_api(response, decodeError) ==
    IF response.kind = "error" THEN Raise("ConnectionError")
    ELSE IF response.status_code = 200
    THEN LET response_data == JsonLoads(response.body) IN
         IF response_data.exc # "" THEN Raise(decodeError)
         ELSE TextOfEnvelope(response_data.val)
    ELSE Raise("Exception")

\* the literals of the fallback generators
FallbackConfigBody == <<"function fn() {\n    var env = karate.env || 'dev';\n    var config = {\n        baseUrl: 'http://localhost:8080',\n        timeout: 10000\n    };\n    \n    if (env === 'dev') {\n        config.baseUrl = 'http://localhost:8080';\n    } else if (env === 'staging') {\n        config.baseUrl = 'https://staging-api.example.com';\n    } else if (env === 'prod') {\n        config.baseUrl = 'https://api.example.com';\n    }\n    \n    return config;\n}">>
FallbackRunnerHead == "import com.intuit.karate.junit5.Karate;\n\npublic class "
FallbackRunnerTail == " {\n    \n    @Karate.Test\n    Karate testAll() {\n        return Karate.run().relativeTo(getClass());\n    }\n}"
FallbackFeatureBody == <<"Feature: Sample API Test\n\nBackground:\n    * url baseUrl\n\nScenario: Sample GET request\n    Given path '/api/sample'\n    When method GET\n    Then status 200\n    And match response contains { \"message\": \"success\" }">>

\* the fallback runner with the spaces of the name kept
fallback_runner_keeping_spaces(collection_name) ==
    <<FallbackRunnerHead>> \o (ReplaceAtom(collection_name, "-") \o <<"TestRunner">>) \o <<FallbackRunnerTail>>
_generate_fallback_config == FallbackConfigBody
\* collection_name is a str here
_generate_fallback_runner(collection_name) ==
    <<FallbackRunnerHead>> \o (ReplaceAtom(ReplaceAtom(collection_name, "-"), WS) \o <<"TestRunner">>) \o <<FallbackRunnerTail>>
_generate_fallback_feature == FallbackFeatureBody

_create_fallback_structure(collection_name) ==
    IF ~IsStr(collection_name) THEN Raise("AttributeError")
    ELSE Return(JDict(<<
           <<CONFIG_JS, JStr(_generate_fallback_config)>>,
           <<TESTRUNNER_JAVA, JStr(_generate_fallback_runner(collection_name.s))>>,
           <<FEATURES, JDict(<< <<SAMPLE_FEATURE, JStr(_generate_fallback_feature)>> >>)>> >>))

\* the parser with end_idx = rfind('}'), the closing brace left out of the span
parse_without_closing_brace(response_text, collection_name) ==
    IF ~IsStr(response_text) THEN Raise("AttributeError")
    ELSE LET start_idx == find(response_text.s, "{")
             end_idx == rfind(response_text.s, "}")
         IN  IF start_idx # -1 /\ end_idx # -1
             THEN LET parsed_files == JsonLoads(Slice(response_text.s, start_idx, end_idx)) IN
                  IF parsed_files.exc # "" THEN _create_fallback_structure(collection_name)
                  ELSE IF ~IsDict(parsed_files.val) THEN Raise("ValueError")
                  ELSE Return(parsed_files.val)
             ELSE _create_fallback_structure(collection_name)
_parse_gemini_response(response_text, collection_name) ==
    IF ~IsStr(response_text) THEN Raise("AttributeError")
    ELSE LET start_idx == find(response_text.s, "{")
             end_idx == rfind(response_text.s, "}") + 1
         IN  IF start_idx # -1 /\ end_idx # -1
             THEN LET parsed_files == JsonLoads(Slice(response_text.s, start_idx, end_idx)) IN
                  IF parsed_files.exc # "" THEN _create_fallback_structure(collection_name)
                  ELSE IF ~IsDict(parsed_files.val) THEN Raise("ValueError")
                  ELSE Return(parsed_files.val)
             ELSE _create_fallback_structure(collection_name)

-----------------------------------------------------------------------------
(* Inputs: what a client may post, and what the model endpoint may answer  *)

Named(name) == JDict(<< <<K_name, name>> >>)
InfoValues ==
    { JDict(<<>>), Named(JStr(<<"X">>)), Named(JStr(<<"My", "-", "API", WS, "v1">>)),
      Named(JNum("5")), JStr(<<"x">>), JNull, JList(<<>>) }
GetUsers ==
    JDict(<< <<K_name, JStr(<<"Get", WS, "Users">>)>>,
             <<K_request, JDict(<< <<<<"method">>, JStr(<<"GET">>)>> >>)>> >>)
ItemValues ==
    { JList(<<>>), JList(<<GetUsers>>), JList(<<JNum("5")>>),
      JList(<<JDict(<< <<K_request, JStr(<<"GET">>)>> >>)>>),
      JNum("5"), JStr(<<"request">>), JNull, JDict(<<>>) }
\* every decoded value the validator accepts has the keys info and item
Collections ==
    { JDict(<< <<K_info, i>>, <<K_item, t>> >>) : i \in InfoValues, t \in ItemValues }
    \cup { JDict(<< <<K_item, JList(<<>>)>>, <<<<"variable">>, JList(<<>>)>>, <<K_info, Named(JStr(<<"X">>))>> >>) }
NonCollections ==
    { JNull, JFalse, JTrue, JNum("0"), JNum("5"), JStr(<<>>), JStr(<<"x">>),
      JList(<<>>), JList(<<JStr(K_info), JStr(K_item)>>), JDict(<<>>),
      JDict(<< <<K_info, Named(JStr(<<"X">>))>> >>),
      JDict(<< <<K_item, JList(<<>>)>> >>),
      JDict(<< <<<<"variable">>, JList(<<>>)>> >>) }
Documents == Collections \cup NonCollections
\* payloads json.loads refuses
UndecodableBodies ==
    { <<>>, <<"{">>, <<"not", WS, "json">>, <<BADBYTE>>,
      <<"{", QUOTE, "info", QUOTE, ":", "{", "}", ",", QUOTE, "item", QUOTE, ":", "[", "]", ",", "}">> }
Bodies == { Dumps(d) : d \in Documents } \cup UndecodableBodies
\* a multipart upload in the field file, or a raw body
Requests ==
    { [has_file |-> TRUE, filename |-> f, is_json |-> FALSE, data |-> b] :
        f \in {<<>>, <<"collection.json">>}, b \in Bodies }
    \cup { [has_file |-> FALSE, filename |-> <<>>, is_json |-> j, data |-> b] :
           j \in BOOLEAN, b \in Bodies }

Obj(k, v) == JDict(<< <<k, v>> >>)
WellShaped ==
    JDict(<< <<CONFIG_JS, JStr(<<"A">>)>>, <<TESTRUNNER_JAVA, JStr(<<"B">>)>>,
             <<FEATURES, Obj(<<"s.feature">>, JStr(<<"C">>))>> >>)
\* reply texts of the model
ReplyTexts ==
    { <<"Sorry,", WS, "no", WS, "suite">>,
      <<"prefix", WS>> \o Dumps(WellShaped) \o <<WS, "suffix">>,
      Dumps(JDict(<<>>)),
      Dumps(Obj(CONFIG_JS, JStr(<<"A">>))),
      Dumps(Obj(<<"a">>, JNum("1"))),
      Dumps(Obj(FEATURES, Obj(<<"d">>, Obj(<<"x">>, JStr(<<"y">>))))),
      <<"{", "oops", "}">>,
      Dumps(Obj(<<"a">>, JStr(<<"b">>))) \o <<WS>> \o Dumps(Obj(<<"c">>, JStr(<<"d">>))),
      <<"}", WS, "{">>,
      <<"see", WS, "}">>,
      <<"{", QUOTE, "a", QUOTE, ":">> }
Envelope(text) ==
    Obj(<<"candidates">>, JList(<<Obj(<<"content">>, Obj(<<"parts">>, JList(<<Obj(<<"text">>, text)>>)))>>))
\* 200 bodies that are JSON but do not hold candidates[0].content.parts[0].text
BrokenEnvelopes ==
    { JDict(<<>>), JList(<<>>), JNum("5"),
      Obj(<<"candidates">>, JList(<<>>)),
      Obj(<<"candidates">>, JList(<<JDict(<<>>)>>)),
      Obj(<<"candidates">>, JList(<<Obj(<<"content">>, JDict(<<>>))>>)),
      Obj(<<"candidates">>, JList(<<Obj(<<"content">>, Obj(<<"parts">>, JList(<<>>)))>>)),
      Obj(<<"candidates">>, JList(<<Obj(<<"content">>, Obj(<<"parts">>, JList(<<JDict(<<>>)>>)))>>)) }
GoodReplies ==
    { [kind |-> "http", status_code |-> 200, body |-> Dumps(Envelope(JStr(t)))] : t \in ReplyTexts }
    \cup { [kind |-> "http", status_code |-> 200, body |-> Dumps(Envelope(JNull))] }
FailedReplies ==
    { [kind |-> "error", status_code |-> 0, body |-> <<>>],
      [kind |-> "http", status_code |-> 500, body |-> <<"Internal", WS, "error">>],
      [kind |-> "http", status_code |-> 429, body |-> Dumps(Envelope(JStr(Dumps(WellShaped))))],
      [kind |-> "http", status_code |-> 200, body |-> <<"<html>">>] }
    \cup { [kind |-> "http", status_code |-> 200, body |-> Dumps(e)] : e \in BrokenEnvelopes }
\* response.json() on a body that is not JSON raises requests' JSONDecodeError,
\* a json.JSONDecodeError unless simplejson is installed
DecodeErrors == {"JSONDecodeError", "simplejson.JSONDecodeError"}

-----------------------------------------------------------------------------
(* The process: start-up, then one handler frame per request               *)

VARIABLES
    started,          \* the module body of app.py has run
    GEMINI_API_KEY,   \* Config.GEMINI_API_KEY, from the environment
    gemini_service,   \* the module-level client handle, "None" or "GeminiService"
    h,                \* request id -> the handler's frame
    archives          \* temp dir number -> the archive written there

vars == <<started, GEMINI_API_KEY, gemini_service, h, archives>>

\* the attributes class Config defines
ConfigAttributes == {"GEMINI_API_KEY", "SECRET_KEY", "DEBUG", "MAX_CONTENT_LENGTH"}
KeyValues == {"<unset>", "", "AIza..."}
KeyTruthy(k) == k \notin {"<unset>", ""}

\* GeminiService(): what the constructor raises, "" when it returns
GeminiService_init(key) ==
    IF ~KeyTruthy(key) THEN "ValueError"
    ELSE IF "GEMINI_API_URL" \notin ConfigAttributes THEN "AttributeError"
    ELSE ""

NoResponse == [status |-> 0, error |-> "", exc |-> "", zip_path |-> 0]
NoRequest == [has_file |-> FALSE, filename |-> <<>>, is_json |-> FALSE, data |-> <<>>]
NoReply == [kind |-> "none", status_code |-> 0, body |-> <<>>]
IdleFrame ==
    [pc |-> "idle", request |-> NoRequest, postman_data |-> JNull, valid |-> FALSE,
     collection_name |-> JNull, prompt |-> JNull, calls |-> 0, reply |-> NoReply,
     response_text |-> JNull, parsed |-> FALSE, karate_files |-> JNull,
     temp_dir |-> 0, response |-> NoResponse]

Error400(msg) == [status |-> 400, error |-> msg, exc |-> "", zip_path |-> 0]
Error500(e) == [status |-> 500, error |-> "Internal server error", exc |-> e, zip_path |-> 0]
\* the except clauses of the handler
HandleException(e) ==
    IF e = "JSONDecodeError" THEN Error400("Invalid JSON format") ELSE Error500(e)
Done(f, resp) == [f EXCEPT !.pc = "done", !.response = resp]

Init ==
    /\ started = FALSE
    /\ GEMINI_API_KEY \in KeyValues
    /\ gemini_service = "None"
    /\ h = [r \in {1} |-> IdleFrame]
    /\ archives = <<>>

\* the module body: gemini_service = GeminiService() if the key is set
Startup ==
    /\ ~started
    /\ started' = TRUE
    /\ gemini_service' =
         IF KeyTruthy(GEMINI_API_KEY) /\ GeminiService_init(GEMINI_API_KEY) = ""
         THEN "GeminiService" ELSE "None"
    /\ UNCHANGED <<GEMINI_API_KEY, h, archives>>

\* a POST /convert arrives
Receive(r) ==
    /\ started
    /\ h[r].pc = "idle"
    /\ \E q \in Requests : h' = [h EXCEPT ![r] = [@ EXCEPT !.pc = "accept", !.request = q]]
    /\ UNCHANGED <<started, GEMINI_API_KEY, gemini_service, archives>>

\* request.get_json(): legacy Flask answers None to a body that is not
\* declared JSON, later Flask raises UnsupportedMediaType; a declared JSON
\* body that does not decode raises BadRequest
get_json(request, legacy) ==
    IF ~request.is_json
    THEN (IF legacy THEN Return(JNull) ELSE Raise("UnsupportedMediaType"))
    ELSE IF JsonLoadsBytes(request.data).exc # "" THEN Raise("BadRequest")
    ELSE Return(JsonLoadsBytes(request.data).val)

\* the input part of the handler: the decoded input, or the response
AcceptInput(request, legacy) ==
    IF request.has_file
    THEN IF request.filename = <<>> THEN [resp |-> Error400("No file selected"), data |-> JNull]
         ELSE LET d == JsonLoadsBytes(request.data) IN
              IF d.exc # "" THEN [resp |-> HandleException(d.exc), data |-> JNull]
              ELSE [resp |-> NoResponse, data |-> d.val]
    ELSE LET d == get_json(request, legacy) IN
         IF d.exc # "" THEN [resp |-> HandleException(d.exc), data |-> JNull]
         ELSE IF ~Truthy(d.val) THEN [resp |-> Error400("No JSON data provided"), data |-> JNull]
         ELSE [resp |-> NoResponse, data |-> d.val]

Accept(r) ==
    /\ h[r].pc = "accept"
    /\ \E legacy \in BOOLEAN :
         LET a == AcceptInput(h[r].request, legacy) IN
         h' = [h EXCEPT ![r] =
                 IF a.resp # NoResponse THEN Done(@, a.resp)
                 ELSE [@ EXCEPT !.pc = "validate", !.postman_data = a.data]]
    /\ UNCHANGED <<started, GEMINI_API_KEY, gemini_service, archives>>

Validate(r) ==
    /\ h[r].pc = "validate"
    /\ h' = [h EXCEPT ![r] =
               IF ~is_valid_postman_collection(@.postman_data)
               THEN Done(@, Error400("Invalid Postman collection format"))
               ELSE [@ EXCEPT !.pc = "generate", !.valid = TRUE]]
    /\ UNCHANGED <<started, GEMINI_API_KEY, gemini_service, archives>>

\* no client: the built-in generator
ProcessCollection(r) ==
    /\ h[r].pc = "generate"
    /\ gemini_service = "None"
    /\ LET k == process_postman_collection(h[r].postman_data) IN
       h' = [h EXCEPT ![r] =
               IF k.exc # "" THEN Done(@, HandleException(k.exc))
               ELSE [@ EXCEPT !.pc = "package", !.karate_files = k.val]]
    /\ UNCHANGED <<started, GEMINI_API_KEY, gemini_service, archives>>

\* generate_karate_test_suite up to the prompt
BuildPrompt(r) ==
    /\ h[r].pc = "generate"
    /\ gemini_service = "GeminiService"
    /\ LET collection_info == Get(h[r].postman_data, K_info, JDict(<<>>))
           p == _create_generation_prompt(h[r].postman_data)
       IN  h' = [h EXCEPT ![r] =
                   IF ~IsDict(collection_info) THEN Done(@, HandleException("AttributeError"))
                   ELSE IF p.exc # "" THEN Done(@, HandleException(p.exc))
                   ELSE [@ EXCEPT !.pc = "call", !.prompt = p.val,
                                  !.collection_name = Get(collection_info, K_name, JStr(DefaultName))]]
    /\ UNCHANGED <<started, GEMINI_API_KEY, gemini_service, archives>>

\* the one requests.post of _call_gemini_api and what the endpoint answers
CallGemini(r) ==
    /\ h[r].pc = "call"
    /\ \E reply \in GoodReplies \cup FailedReplies, decodeError \in DecodeErrors :
         LET t == _call_gemini_api(reply, decodeError) IN
         h' = [h EXCEPT ![r] =
                 IF t.exc # ""
                 THEN Done([@ EXCEPT !.calls = @ + 1, !.reply = reply], HandleException(t.exc))
                 ELSE [@ EXCEPT !.pc = "parse", !.calls = @ + 1, !.reply = reply,
                                !.response_text = t.val]]
    /\ UNCHANGED <<started, GEMINI_API_KEY, gemini_service, archives>>

ParseResponse(r) ==
    /\ h[r].pc = "parse"
    /\ LET k == _parse_gemini_response(h[r].response_text, h[r].collection_name) IN
       h' = [h EXCEPT ![r] =
               IF k.exc # "" THEN Done([@ EXCEPT !.parsed = TRUE], HandleException(k.exc))
               ELSE [@ EXCEPT !.pc = "package", !.parsed = TRUE, !.karate_files = k.val]]
    /\ UNCHANGED <<started, GEMINI_API_KEY, gemini_service, archives>>

\* create_zip_file in a fresh temp dir, then send_file
Package(r) ==
    /\ h[r].pc = "package"
    /\ LET zip == create_zip_file(h[r].karate_files)
           zip_path == Len(archives) + 1
       IN  /\ archives' = Append(archives, zip.val)
           /\ h' = [h EXCEPT ![r] =
                      IF zip.exc # "" THEN Done([@ EXCEPT !.temp_dir = zip_path], HandleException(zip.exc))
                      ELSE Done([@ EXCEPT !.temp_dir = zip_path],
                                [status |-> 200, error |-> "", exc |-> "", zip_path |-> zip_path])]
    /\ UNCHANGED <<started, GEMINI_API_KEY, gemini_service>>

\* the program as configured by src/config.py
Next ==
    \/ Startup
    \/ \E r \in DOMAIN h : Receive(r)
    \/ \E r \in DOMAIN h : Accept(r)
    \/ \E r \in DOMAIN h : Validate(r)
    \/ \E r \in DOMAIN h : ProcessCollection(r)
    \/ \E r \in DOMAIN h : Package(r)
Spec == Init /\ [][Next]_vars

\* the handler with a constructed client
InitConfigured ==
    /\ started = TRUE
    /\ GEMINI_API_KEY = "AIza..."
    /\ gemini_service = "GeminiService"
    /\ h = [r \in {1} |-> IdleFrame]
    /\ archives = <<>>
NextConfigured ==
    \/ \E r \in DOMAIN h : Receive(r)
    \/ \E r \in DOMAIN h : Accept(r)
    \/ \E r \in DOMAIN h : Validate(r)
    \/ \E r \in DOMAIN h : BuildPrompt(r)
    \/ \E r \in DOMAIN h : CallGemini(r)
    \/ \E r \in DOMAIN h : ParseResponse(r)
    \/ \E r \in DOMAIN h : Package(r)
SpecConfigured == InitConfigured /\ [][NextConfigured]_vars

-----------------------------------------------------------------------------
(* The parser and the archive builder on their own inputs                  *)

MaxFragments == 5
Fragments ==
    { <<"{">>, <<"}">>, <<QUOTE, "k", QUOTE, ":">>, <<QUOTE, "v", QUOTE>>, <<",">>, <<"prose">>,
      <<"{", QUOTE, "n", QUOTE, ":", QUOTE, "w", QUOTE, "}">> }
RECURSIVE Concat(_)
Concat(fs) == IF fs = <<>> THEN <<>> ELSE Head(fs) \o Concat(Tail(fs))
FragmentTexts == { Concat(fs) : fs \in UNION { [1..n -> Fragments] : n \in 0..MaxFragments } }
CollectionNames == { <<"X">>, <<"My", "-", "API", WS, "v1">> }

\* a frame about to call _parse_gemini_response
InitParser ==
    /\ started = TRUE
    /\ GEMINI_API_KEY = "AIza..."
    /\ gemini_service = "GeminiService"
    /\ \E t \in FragmentTexts, n \in CollectionNames :
         h = [r \in {1} |-> [IdleFrame EXCEPT !.pc = "parse", !.calls = 1,
                                               !.response_text = JStr(t),
                                               !.collection_name = JStr(n)]]
    /\ archives = <<>>
NextParser == \E r \in DOMAIN h : ParseResponse(r)
SpecParser == InitParser /\ [][NextParser]_vars

Contents == { <<"X">>, <<"Y">> }
Absent == <<"<absent>">>
FA == <<"features", "/", "a">>
\* the entries of a mapping keys[i] -> vals[i], leaving out the absent ones
RECURSIVE Entries(_, _)
Entries(keys, vals) ==
    IF keys = <<>> THEN <<>>
    ELSE (IF vals[1] = JStr(Absent) THEN <<>> ELSE << <<keys[1], vals[1]>> >>)
         \o Entries(Tail(keys), Tail(vals))
TextOrAbsent == { JStr(c) : c \in Contents \cup {Absent} }
Mappings ==
    { JDict(Entries(<< <<"a">>, <<"b">> >>, <<a, b>>)) : a \in TextOrAbsent, b \in TextOrAbsent }
    \cup { JStr(Absent) }
\* bundles: text entries and one-level mappings of filename to text
Bundles ==
    { JDict(Entries(<< CONFIG_JS, FA, FEATURES, <<"features", "/">> >>, <<c, fa, f, fs>>)) :
        c \in TextOrAbsent, fa \in TextOrAbsent, f \in Mappings, fs \in Mappings }

\* a frame about to call create_zip_file
InitArchive ==
    /\ started = TRUE
    /\ GEMINI_API_KEY \in KeyValues
    /\ gemini_service = "None"
    /\ \E b \in Bundles :
         h = [r \in {1} |-> [IdleFrame EXCEPT !.pc = "package", !.karate_files = b]]
    /\ archives = <<>>
NextArchive == \E r \in DOMAIN h : Package(r)
SpecArchive == InitArchive /\ [][NextArchive]_vars

-----------------------------------------------------------------------------
(* Requests in flight together                                             *)

\* raw JSON bodies: two collections of different names, a collection whose
\* name is not a text, a document that is no collection, and no JSON at all
ConcurrentBodies ==
    { Dumps(JDict(<< <<K_info, Named(JStr(<<"X">>))>>, <<K_item, JList(<<>>)>> >>)),
      Dumps(JDict(<< <<K_info, Named(JStr(<<"My", "-", "API", WS, "v1">>))>>, <<K_item, JList(<<GetUsers>>)>> >>)),
      Dumps(JDict(<< <<K_info, Named(JNum("5"))>>, <<K_item, JList(<<>>)>> >>)),
      Dumps(JDict(<<>>)),
      <<"{">> }
ConcurrentRequests ==
    { [has_file |-> FALSE, filename |-> <<>>, is_json |-> TRUE, data |-> b] : b \in ConcurrentBodies }

\* a POST /convert arrives while another may be in flight
ReceiveConcurrent(r) ==
    /\ started
    /\ h[r].pc = "idle"
    /\ \E q \in ConcurrentRequests : h' = [h EXCEPT ![r] = [@ EXCEPT !.pc = "accept", !.request = q]]
    /\ UNCHANGED <<started, GEMINI_API_KEY, gemini_service, archives>>

\* one directory for every caller
mkdtemp_shared(dirs) == 1
\* tempfile.mkdtemp(): a directory that did not exist, created atomically
mkdtemp(dirs) == Len(dirs) + 1

\* the first line of create_zip_file
MakeTempDir(r) ==
    /\ h[r].pc = "package"
    /\ LET temp_dir == mkdtemp(archives) IN
       /\ archives' = [d \in DOMAIN archives \cup {temp_dir} |->
                         IF d = temp_dir THEN <<>> ELSE archives[d]]
       /\ h' = [h EXCEPT ![r] = [@ EXCEPT !.pc = "zip", !.temp_dir = temp_dir]]
    /\ UNCHANGED <<started, GEMINI_API_KEY, gemini_service>>

\* the rest of create_zip_file, then send_file
WriteZip(r) ==
    /\ h[r].pc = "zip"
    /\ LET zip == create_zip_file(h[r].karate_files)
           zip_path == h[r].temp_dir
       IN  /\ archives' = [archives EXCEPT ![zip_path] = zip.val]
           /\ h' = [h EXCEPT ![r] =
                      IF zip.exc # "" THEN Done(@, HandleException(zip.exc))
                      ELSE Done(@, [status |-> 200, error |-> "", exc |-> "", zip_path |-> zip_path])]
    /\ UNCHANGED <<started, GEMINI_API_KEY, gemini_service>>

\* two handler threads of one process, in either mode
InitConcurrent ==
    /\ started = TRUE
    /\ GEMINI_API_KEY = "AIza..."
    /\ gemini_service \in {"None", "GeminiService"}
    /\ h = [r \in {1, 2} |-> IdleFrame]
    /\ archives = <<>>
NextConcurrent ==
    \/ \E r \in DOMAIN h : ReceiveConcurrent(r)
    \/ \E r \in DOMAIN h : Accept(r)
    \/ \E r \in DOMAIN h : Validate(r)
    \/ \E r \in DOMAIN h : ProcessCollection(r)
    \/ \E r \in DOMAIN h : BuildPrompt(r)
    \/ \E r \in DOMAIN h : CallGemini(r)
    \/ \E r \in DOMAIN h : ParseResponse(r)
    \/ \E r \in DOMAIN h : MakeTempDir(r)
    \/ \E r \in DOMAIN h : WriteZip(r)
SpecConcurrent == InitConcurrent /\ [][NextConcurrent]_vars

\* generate_karate_test_suite run on its own: prompt, call, parse
generate_karate_test_suite(postman_collection, reply, decodeError) ==
    LET collection_info == Get(postman_collection, K_info, JDict(<<>>)) IN
    IF ~IsDict(collection_info) THEN Raise("AttributeError")
    ELSE LET collection_name == Get(collection_info, K_name, JStr(DefaultName))
             prompt == _create_generation_prompt(postman_collection)
         IN  IF prompt.exc # "" THEN Raise(prompt.exc)
             ELSE LET response == _call_gemini_api(reply, decodeError) IN
                  IF response.exc # "" THEN Raise(response.exc)
                  ELSE _parse_gemini_response(response.val, collection_name)

\* the handler run on its own: the response, and the archive it leaves in
\* its temp dir (made says whether it got as far as create_zip_file)
convert_postman_to_karate(request, legacy, service, reply, decodeError) ==
    LET a == AcceptInput(request, legacy) IN
    IF a.resp # NoResponse THEN [response |-> a.resp, made |-> FALSE, zip |-> <<>>]
    ELSE IF ~is_valid_postman_collection(a.data)
    THEN [response |-> Error400("Invalid Postman collection format"), made |-> FALSE, zip |-> <<>>]
    ELSE LET karate_files == IF service = "GeminiService"
                             THEN generate_karate_test_suite(a.data, reply, decodeError)
                             ELSE process_postman_collection(a.data)
         IN  IF karate_files.exc # ""
             THEN [response |-> HandleException(karate_files.exc), made |-> FALSE, zip |-> <<>>]
             ELSE LET zip == create_zip_file(karate_files.val) IN
                  IF zip.exc # ""
                  THEN [response |-> HandleException(zip.exc), made |-> TRUE, zip |-> zip.val]
                  ELSE [response |-> [status |-> 200, error |-> "", exc |-> "", zip_path |-> 0],
                        made |-> TRUE, zip |-> zip.val]

-----------------------------------------------------------------------------
(* Properties                                                              *)

Finished(r) == h[r].pc = "done"
\* the handler reads and decodes the payload of this request
ReadsPayload(q) == (q.has_file /\ q.filename # <<>>) \/ (~q.has_file /\ q.is_json)
Decoded(q) == JsonLoadsBytes(q.data)

\* C1: a request whose payload decodes to a value that fails collection
\* validation is answered 400 {"error": "Invalid Postman collection format"},
\* the raw body {} included.
C1_InvalidCollectionRejected ==
    \A r \in DOMAIN h :
        (/\ Finished(r)
         /\ ReadsPayload(h[r].request)
         /\ Decoded(h[r].request).exc = ""
         /\ ~is_valid_postman_collection(Decoded(h[r].request).val))
        => h[r].response = Error400("Invalid Postman collection format")

\* C2: a request whose payload is not JSON is answered 400, on the upload
\* path with {"error": "Invalid JSON format"}, and never 500.
C2_UndecodableIs400 ==
    \A r \in DOMAIN h :
        (/\ Finished(r)
         /\ ReadsPayload(h[r].request)
         /\ Decoded(h[r].request).exc # "")
        => /\ h[r].response.status = 400
           /\ h[r].request.has_file => h[r].response.error = "Invalid JSON format"

Is200Http(reply) == reply.kind = "http" /\ reply.status_code = 200
UnderFeatures(name) == Len(name) >= 3 /\ name[1] = "features" /\ name[2] = "/"
MemberNames(zip) == { zip[i][1] : i \in 1..Len(zip) }

\* C3: with a client, a valid collection (its name a text) and a 200 answer
\* holding candidates[0].content.parts[0].text, the request ends 200 with an
\* archive whatever the reply text is.
C3_ReplyContentNeverFails ==
    \A r \in DOMAIN h :
        (/\ Finished(r)
         /\ h[r].valid
         /\ IsStr(h[r].collection_name)
         /\ h[r].reply \in GoodReplies
         /\ IsStr(h[r].response_text))
        => h[r].response.status = 200 /\ h[r].response.zip_path \in 1..Len(archives)

\* C4: the archive of a 200 response holds karate-config.js, TestRunner.java,
\* at least one member under features/, and nothing else; a reply that parses
\* to a mapping of another shape is replaced by the fallback bundle.
C4_ArchiveShape ==
    \A r \in DOMAIN h :
        (Finished(r) /\ h[r].response.status = 200)
        => LET names == MemberNames(archives[h[r].response.zip_path]) IN
           /\ CONFIG_JS \in names
           /\ TESTRUNNER_JAVA \in names
           /\ \E n \in names : UnderFeatures(n)
           /\ \A n \in names : n \in {CONFIG_JS, TESTRUNNER_JAVA} \/ UnderFeatures(n)

\* C6: when the model call fails (no 200, no usable envelope, network
\* error) the request ends 500 after exactly one outbound call, the parser has
\* not run and no archive exists.
C6_FailedCallIs500 ==
    \A r \in DOMAIN h :
        (Finished(r) /\ h[r].reply \in FailedReplies)
        => /\ h[r].response.status = 500
           /\ h[r].calls = 1
           /\ ~h[r].parsed
           /\ h[r].karate_files = JNull
           /\ h[r].response.zip_path = 0
           /\ archives = <<>>

\* C6, the rest of it: a failed call whose body is JSON, or that has no 200,
\* or no answer at all, does end as the claim says
C6_FailedCallWithJsonBody ==
    \A r \in DOMAIN h :
        (Finished(r) /\ h[r].reply \in FailedReplies
           /\ (Is200Http(h[r].reply) => JsonLoads(h[r].reply.body).exc = ""))
        => /\ h[r].response.status = 500
           /\ h[r].calls = 1
           /\ ~h[r].parsed
           /\ h[r].response.zip_path = 0
           /\ archives = <<>>

\* C7: a 400 is answered before any model call, and a request that passed
\* validation ends 200 unless the model call itself failed.
C7_InputFailuresBeforeCall ==
    \A r \in DOMAIN h :
        Finished(r)
        => /\ h[r].response.status = 400 => h[r].calls = 0
           /\ h[r].valid => \/ h[r].response.status = 200
                            \/ h[r].calls = 1 /\ h[r].reply \in FailedReplies

Strip(name) == SelectSeq(name, LAMBDA c : c \notin {"-", WS})
\* info.name where it is a text, the default name otherwise
NameOf(collection) ==
    LET info == Get(collection, K_info, JDict(<<>>)) IN
    IF IsDict(info) /\ IsStr(Get(info, K_name, JStr(DefaultName)))
    THEN Get(info, K_name, JStr(DefaultName)).s
    ELSE DefaultName

\* C8: without a client, a valid collection sent as a raw JSON body or as an
\* upload gets 200 and an archive of exactly karate-config.js,
\* TestRunner.java and features/sample.feature, the runner class named by
\* info.name without hyphens and spaces, then TestRunner.
C8_DegradedBundle ==
    \A r \in DOMAIN h :
        (/\ Finished(r)
         /\ gemini_service = "None"
         /\ ReadsPayload(h[r].request)
         /\ Decoded(h[r].request).exc = ""
         /\ is_valid_postman_collection(Decoded(h[r].request).val))
        => /\ h[r].response.status = 200
           /\ h[r].response.zip_path \in 1..Len(archives)
           /\ LET zip == archives[h[r].response.zip_path] IN
              /\ Len(zip) = 3
              /\ MemberNames(zip) = {CONFIG_JS, TESTRUNNER_JAVA, <<"features", "/", "sample.feature">>}
              /\ \E i \in 1..3 :
                   /\ zip[i][1] = TESTRUNNER_JAVA
                   /\ zip[i][2] = <<RunnerHead>> \o Strip(NameOf(h[r].postman_data))
                                  \o <<"TestRunner", RunnerTail>>

\* C9: the validator answers true exactly for a mapping holding both the key
\* info and the key item, whatever the value of item, and false for anything
\* else; an input it refuses is answered 400.
C9_ValidatorCharacterised ==
    \A r \in DOMAIN h :
        h[r].pc \in {"generate", "package", "done"}
        => /\ h[r].valid <=> /\ h[r].postman_data.t = "dict"
                             /\ \E i \in 1..Len(h[r].postman_data.kv) : h[r].postman_data.kv[i][1] = <<"info">>
                             /\ \E i \in 1..Len(h[r].postman_data.kv) : h[r].postman_data.kv[i][1] = <<"item">>
           /\ (h[r].postman_data # JNull /\ ~h[r].valid)
                => h[r].response = Error400("Invalid Postman collection format")
C9_Witness ==
    \E r \in DOMAIN h :
        /\ h[r].pc = "generate"
        /\ h[r].valid
        /\ Get(h[r].postman_data, K_item, JNull).t = "num"

\* the (path, content) pairs of a bundle: a text entry at its key, a nested
\* entry at outerKey/innerKey
OuterDir(key) == IF key[Len(key)] = "/" THEN key ELSE key \o <<"/">>
BundlePairs(bundle) ==
    { <<bundle.kv[i][1], bundle.kv[i][2].s>> : i \in { j \in 1..Len(bundle.kv) : IsStr(bundle.kv[j][2]) } }
    \cup UNION { { <<OuterDir(bundle.kv[i][1]) \o bundle.kv[i][2].kv[k][1], bundle.kv[i][2].kv[k][2].s>> :
                     k \in 1..Len(bundle.kv[i][2].kv) } :
                 i \in { j \in 1..Len(bundle.kv) : IsDict(bundle.kv[j][2]) } }
\* extracting every member in order: a later member of the same name
\* overwrites the file of an earlier one
ExtractAll(zip) ==
    { zip[i] : i \in { j \in 1..Len(zip) : \A k \in (j + 1)..Len(zip) : zip[k][1] # zip[j][1] } }

\* C10: building the archive of a bundle and extracting it gives back
\* exactly the (path, content) pairs of the bundle, also when a top-level key
\* and a nested entry flatten to the same path.
C10_RoundTrip ==
    \A r \in DOMAIN h :
        (Finished(r) /\ h[r].response.status = 200)
        => ExtractAll(archives[h[r].response.zip_path]) = BundlePairs(h[r].karate_files)

FirstOpen(text) == CHOOSE i \in 1..Len(text) : text[i] = "{" /\ \A j \in 1..(i - 1) : text[j] # "{"
LastClose(text) == CHOOSE i \in 1..Len(text) : text[i] = "}" /\ \A j \in (i + 1)..Len(text) : text[j] # "}"
\* the span from the first '{' to the last '}' exists and is a JSON mapping
SpanIsMapping(text) ==
    /\ \E i \in 1..Len(text) : text[i] = "{"
    /\ \E i \in 1..Len(text) : text[i] = "}"
    /\ FirstOpen(text) < LastClose(text)
    /\ JsonLoads(SubSeq(text, FirstOpen(text), LastClose(text))).exc = ""
    /\ JsonLoads(SubSeq(text, FirstOpen(text), LastClose(text))).val.t = "dict"

\* C5: the parser never raises; it returns the object parsed from the span
\* first '{' .. last '}' when that span is a JSON mapping, and the fallback
\* bundle of the collection name in every other case.
C5_ParserResult ==
    \A r \in DOMAIN h :
        h[r].parsed
        => /\ h[r].pc = "package"
           /\ h[r].karate_files =
                IF SpanIsMapping(h[r].response_text.s)
                THEN JsonLoads(SubSeq(h[r].response_text.s, FirstOpen(h[r].response_text.s),
                                      LastClose(h[r].response_text.s))).val
                ELSE _create_fallback_structure(h[r].collection_name).val
\* a single object between brace-free prose is returned as it is
C5_Witness ==
    \E r \in DOMAIN h :
        /\ h[r].parsed
        /\ h[r].response_text.s = <<"prose", "{", QUOTE, "n", QUOTE, ":", QUOTE, "w", QUOTE, "}", "prose">>
        /\ h[r].pc = "package"
        /\ h[r].karate_files = Obj(<<"n">>, JStr(<<"w">>))
\* C5: a text whose last '}' comes before its first '{' gets the fallback
C5_WitnessFallback ==
    \E r \in DOMAIN h :
        /\ h[r].parsed
        /\ h[r].response_text.s = <<"}", "prose", "{">>
        /\ h[r].karate_files = _create_fallback_structure(JStr(<<"X">>)).val

\* the request went through the parser and got the parse-failure bundle
GotFallback(r) ==
    /\ Finished(r)
    /\ h[r].parsed
    /\ IsStr(h[r].response_text)
    /\ ~SpanIsMapping(h[r].response_text.s)

\* C11: the fallback bundle is determined by the collection name alone:
\* the parse-failure generator called again with the name of the request gives
\* the bundle the request got, and the built-in generator gives, for the same
\* collection, an archive of the same (path, content) entries (or fails as
\* the parse-failure generator does).
C11_FallbackByNameAlone ==
    \A r \in DOMAIN h :
        GotFallback(r)
        => LET again == _create_fallback_structure(h[r].collection_name)
               builtin == process_postman_collection(h[r].postman_data)
           IN  /\ again.exc = builtin.exc
               /\ again.exc # "" => h[r].response = Error500(again.exc)
               /\ again.exc = ""
                    => /\ h[r].karate_files = again.val
                       /\ h[r].response.status = 200
                       /\ archives[h[r].response.zip_path] = create_zip_file(again.val).val
                       /\ archives[h[r].response.zip_path] = create_zip_file(builtin.val).val
\* a reply without an object, for a collection whose name has a hyphen and a
\* space
C11_Witness ==
    \E r \in DOMAIN h :
        /\ GotFallback(r)
        /\ h[r].collection_name = JStr(<<"My", "-", "API", WS, "v1">>)
        /\ h[r].response.status = 200
        /\ Len(archives[h[r].response.zip_path]) = 3


\* C12: the mode is fixed at start-up and follows the key: with an API
\* key configured the client is constructed and every valid request that ends
\* 200 went through one model call; only without a key is the built-in
\* generator used.
C12_ModeFollowsKey ==
    /\ started => (gemini_service = "GeminiService" <=> KeyTruthy(GEMINI_API_KEY))
    /\ \A r \in DOMAIN h :
         (h[r].valid /\ h[r].response.status = 200 /\ KeyTruthy(GEMINI_API_KEY))
         => h[r].calls = 1
\* C12, the part that holds: once the module body has run the handle is
\* never assigned again
C12_ModeNeverChanges == [][started => gemini_service' = gemini_service]_vars


\* what the request r would have got alone in the process, for its own
\* input, the mode and the reply it received
SoloOutcomes(r) ==
    { convert_postman_to_karate(h[r].request, legacy, gemini_service, reply, decodeError) :
        legacy \in BOOLEAN, decodeError \in DecodeErrors,
        reply \in IF h[r].calls = 0 THEN {NoReply} ELSE {h[r].reply} }

\* C13: with requests interleaved in any way, a request writes its
\* archive to a temp dir no other request has, no two responses name the same
\* archive path, and the response and archive of a request are those it would
\* have got alone for its input, the mode and its own model reply.
C13_RequestsIndependent ==
    \A r \in DOMAIN h :
        /\ h[r].temp_dir # 0
             => /\ h[r].temp_dir \in DOMAIN archives
                /\ \A o \in DOMAIN h \ {r} : h[o].temp_dir # h[r].temp_dir
        /\ h[r].response.zip_path # 0
             => /\ h[r].response.zip_path = h[r].temp_dir
                /\ \A o \in DOMAIN h \ {r} : h[o].response.zip_path # h[r].response.zip_path
        /\ Finished(r)
             => \E solo \in SoloOutcomes(r) :
                  /\ [h[r].response EXCEPT !.zip_path = 0] = solo.response
                  /\ solo.made <=> h[r].temp_dir # 0
                  /\ solo.made => archives[h[r].temp_dir] = solo.zip
\* both requests answered 200 with different archives, the first request
\* having made its temp dir after the second
C13_Witness ==
    /\ Finished(1) /\ Finished(2)
    /\ h[1].response.status = 200 /\ h[2].response.status = 200
    /\ h[1].temp_dir = 2 /\ h[2].temp_dir = 1
    /\ archives[1] # archives[2]
    /\ h[1].request # h[2].request

====
